---- MODULE Spec2Model ----
(***************************************************************************)
(* Fixed-horizon single-leg backtest: the batch CLI (src/backtest.py) and  *)
(* the dashboard (src/streamlit_app.py).  One run of either front end over *)
(* a batch of signal rows, against a price source (yfinance) whose answer  *)
(* to each download is data, an empty frame or a raised error.             *)
(*                                                                         *)
(* Dates are day numbers of 2024: day 1 is Monday 2024-01-01.  Optional    *)
(* values (Python's None) are sequences: <<>> is None, <<x>> is x.         *)
(***************************************************************************)
EXTENDS Integers, Sequences, FiniteSets

VARIABLES
  mode,        \* which front end runs: "cli" or "dashboard"
  header,      \* the column names of the input batch
  batch,       \* the rows of the input batch, as read
  investment,  \* amount invested per trade
  days,        \* holding period in trading days
  pc,          \* position of the run
  sigs,        \* the batch after column detection and date parsing
  results,     \* the TradeResults appended so far
  cache,       \* cli: the dict `cache`; dashboard: st.cache_data's store
  cand,        \* inside the provider: the candidate queried next (1..3)
  hist,        \* the series the provider returned for the current row
  calls,       \* the provider's calls for the current row, in order
  fetches,     \* downloads issued to the price source so far
  output,      \* the written CSV / returned frame
  dcand,       \* reference run: its next candidate, 0 when it has returned
  dhist,       \* reference run: the series of the current row
  dresults,    \* reference run: its TradeResults
  i            \* rows the loop has taken from the batch

vars == <<mode, header, batch, investment, days, pc, sigs, results, cache,
          cand, hist, calls, fetches, output, dcand, dhist, dresults, i>>

(***************************************************************************)
(* Bounds of the model and the program's constants.                        *)
(***************************************************************************)
MaxRows == 2
MaxDays == 2
DefaultDays == 5
DefaultInvestment == 1000

None == <<>>
Some(x) == <<x>>

(***************************************************************************)
(* Input batches.  A symbol cell is a string of characters, a date cell is *)
(* the text DD-MM-2024 held as <<DD, MM>>.                                 *)
(***************************************************************************)
Headers == { <<"Stock", "Date">>, <<"Name", "Date">>, <<"Stock", "When">> }
RowCells == { << <<" ", "A">>, <<3, 1>> >>,  \* " A", 03-01-2024 (Wednesday)
              << <<"B">>,      <<6, 1>> >>,  \* "B",  06-01-2024 (Saturday)
              << <<" ", "A">>, <<7, 1>> >>,  \* " A", 07-01-2024 (Sunday)
              << <<"B">>,      <<31, 2>> >> }  \* "B", 31-02-2024 (no date)
Batches == UNION { [1..n -> RowCells] : n \in 0..MaxRows }
HoldingPeriods == (1..MaxDays) \cup {DefaultDays}
Investments == {DefaultInvestment}
Modes == {"cli", "dashboard"}

(***************************************************************************)
(* detect_columns: case-insensitive lookup of the symbol and date columns. *)
(***************************************************************************)
Lower(c) ==
  CASE c = "Stock" -> "stock"
    [] c = "Date"  -> "date"
    [] c = "Name"  -> "name"
    [] c = "When"  -> "when"
    [] OTHER       -> c

\* cols = {c.lower(): c for c in df.columns}
Cols(h) == { <<Lower(h[j]), h[j]>> : j \in 1..Len(h) }
ColNamed(h, name) == { p[2] : p \in { q \in Cols(h) : q[1] = name } }

\* for name in names: if name in cols: return cols[name]
RECURSIVE FirstCol(_, _)
FirstCol(h, names) ==
  IF names = <<>> THEN None
  ELSE IF ColNamed(h, Head(names)) # {}
       THEN Some(CHOOSE c \in ColNamed(h, Head(names)) : TRUE)
       ELSE FirstCol(h, Tail(names))

SymbolNamesWithName == <<"symbol", "stock", "ticker", "name">>
SymbolNames == <<"symbol", "stock", "ticker">>
DateNames == <<"date", "signal_date">>

detect_columns(h) == <<FirstCol(h, SymbolNames), FirstCol(h, DateNames)>>

ColumnsFound(h) == detect_columns(h)[1] # None /\ detect_columns(h)[2] # None

\* row[col]
ColIndex(h, col) == CHOOSE j \in 1..Len(h) : h[j] = col
Cell(h, row, col) == row[ColIndex(h, col)]

(***************************************************************************)
(* pd.to_datetime(..., dayfirst=True): DD-MM-2024 to a day number; a cell  *)
(* that is no calendar date raises.                                        *)
(***************************************************************************)
DaysInMonth == <<31, 29, 31, 30, 31, 30, 31, 31, 30, 31, 30, 31>>

RECURSIVE DaysBefore(_)
DaysBefore(m) == IF m <= 1 THEN 0 ELSE DaysInMonth[m - 1] + DaysBefore(m - 1)

Parses(cell) ==
  /\ cell[2] \in 1..12
  /\ cell[1] >= 1
  /\ cell[1] <= DaysInMonth[cell[2]]

to_datetime(cell) == DaysBefore(cell[2]) + cell[1]

AllParse(h, b) ==
  \A k \in 1..Len(b) : Parses(Cell(h, b[k], detect_columns(h)[2][1]))

\* str(row[symbol_col]).strip()
RECURSIVE LStrip(_)
LStrip(s) == IF s # <<>> /\ Head(s) = " " THEN LStrip(Tail(s)) ELSE s
RECURSIVE RStrip(_)
RStrip(s) ==
  IF s # <<>> /\ s[Len(s)] = " " THEN RStrip(SubSeq(s, 1, Len(s) - 1)) ELSE s
Strip(s) == RStrip(LStrip(s))

(***************************************************************************)
(* The price source (yfinance).  Its behaviour on one download is an       *)
(* Answer: it raises, or it returns the bars it holds inside the requested *)
(* window: the trading days (weekdays) up to a cut-off, possibly none.     *)
(***************************************************************************)
IsTradingDay(d) == ((d - 1) % 7) < 5

CloseTable == << 98, 100, 102, 101, 105,   0,   0,
                110, 108, 111, 107, 112,   0,   0,
                115, 113, 117, 116, 120,   0,   0,
                119, 121, 118, 122, 125,   0,   0 >>

Suffix(ticker) == ticker[Len(ticker)]
Close(ticker, d) ==
  CloseTable[d] + (CASE Suffix(ticker) = ".NS" -> 0
                     [] Suffix(ticker) = ".BO" -> 1
                     [] OTHER -> 2)

\* the source holds nothing, holds bars up to the day before the signal, up
\* to the signal day, up to the day after it, or for the whole window
CutOffs(start, end) == {0, start, start + 1, start + 2, end}
Answers(start, end) ==
  [kind : {"raise"}, upto : {0}] \cup [kind : {"df"}, upto : CutOffs(start, end)]

\* yf.download(t, start=start, end=endExclusive): None stands for a raised
\* exception, Some(rows) for the returned frame (its rows in no order).
Download(ticker, start, endExclusive, answer) ==
  IF answer.kind = "raise" THEN None
  ELSE Some({ [date |-> d, close |-> Close(ticker, d)] :
              d \in { x \in start..(endExclusive - 1) :
                        IsTradingDay(x) /\ x <= answer.upto } })

\* df.sort_index(): the rows ascending by date
RECURSIVE SortIndex(_)
SortIndex(rows) ==
  IF rows = {} THEN <<>>
  ELSE LET first == CHOOSE b \in rows : \A c \in rows : b.date <= c.date
       IN <<first>> \o SortIndex(rows \ {first})

CandidatesRawFirst(symbol) == << symbol, symbol \o <<".NS">>, symbol \o <<".BO">> >>
\* candidates = [symbol + '.NS', symbol + '.BO', symbol]
Candidates(symbol) == << symbol \o <<".NS">>, symbol \o <<".BO">>, symbol >>

(***************************************************************************)
(* backtest.py get_prices, the body of its loop: the download of one       *)
(* candidate; None when it raised or came back empty, else the sorted      *)
(* Close series.                                                           *)
(***************************************************************************)
get_prices_try(ticker, start, end, answer) ==
  LET df == Download(ticker, start, end + 1, answer)
  IN IF df = None \/ df[1] = {} THEN None
     ELSE Some(SortIndex(df[1]))

(***************************************************************************)
(* streamlit_app.py get_prices_cached: the body, and st.cache_data around  *)
(* it, which returns the stored value of a key it has seen.                *)
(***************************************************************************)
get_prices_body(ticker, start, end, answer) ==
  LET df == Download(ticker, start, end + 1, answer)
  IN IF df = None THEN None
     ELSE IF df[1] = {} THEN None
     ELSE Some(SortIndex(df[1]))

CacheKey(ticker, start, end) == <<ticker, start, end>>

get_prices_cached(c, ticker, start, end, answer) ==
  LET key == CacheKey(ticker, start, end)
  IN IF key \in DOMAIN c
     THEN [value |-> c[key], cache |-> c, fetched |-> FALSE]
     ELSE LET v == get_prices_body(ticker, start, end, answer)
          IN [value |-> v, fetched |-> TRUE,
              cache |-> [x \in DOMAIN c \cup {key} |-> IF x = key THEN v ELSE c[x]]]

(***************************************************************************)
(* find_entry_exit (the same in both files).  Positions are 0-based as in  *)
(* the code; At0 reads a 0-based position of a sequence.                   *)
(***************************************************************************)
At0(seq, p) == seq[p + 1]
Index(h) == [j \in 1..Len(h) |-> h[j].date]
\* hist_idx.get_loc(d)
GetLoc(idx, d) == (CHOOSE j \in 1..Len(idx) : idx[j] = d) - 1
\* hist.loc[d, 'Close']
LocClose(h, d) == (CHOOSE j \in 1..Len(h) : h[j].date = d)

OnOrAfterStrict(d, signal_dt) == d > signal_dt
OnOrAfter(d, signal_dt) == d >= signal_dt

ExitTooFarOffByOne(exit_pos, n) == exit_pos + 1 >= n
ExitTooFar(exit_pos, n) == exit_pos >= n

ExitPosInclusive(entry_pos, d) == entry_pos + d - 1
ExitPos(entry_pos, d) == entry_pos + d

find_entry_exit(h, signal_dt, d) ==
  LET hist_idx == Index(h)
      candidate == SelectSeq(hist_idx, LAMBDA x : OnOrAfter(x, signal_dt))
  IN IF candidate = <<>> THEN <<None, None, None, None>>
     ELSE LET entry_date == At0(candidate, 0)
              entry_pos == GetLoc(hist_idx, entry_date)
              exit_pos == ExitPos(entry_pos, d)
          IN IF ExitTooFar(exit_pos, Len(hist_idx))
             THEN <<Some(entry_date), Some(h[LocClose(h, entry_date)].close),
                    None, None>>
             ELSE LET exit_date == At0(hist_idx, exit_pos)
                  IN <<Some(entry_date), Some(h[LocClose(h, entry_date)].close),
                       Some(exit_date), Some(h[LocClose(h, exit_date)].close)>>

(***************************************************************************)
(* TradeResult rows.  return_pct and profit are exact fractions num/den:   *)
(* the code computes them in floating point and rounds nothing.            *)
(***************************************************************************)
Frac(n, d) == [num |-> n, den |-> d]

ReturnRounded(entry_price, exit_price) ==
  Frac(((exit_price - entry_price) * 100) \div entry_price, 100)
\* ret = (exit_price - entry_price) / entry_price
Return(entry_price, exit_price) == Frac(exit_price - entry_price, entry_price)

\* profit = ret * investment
Profit(ret, inv) == Frac(ret.num * inv, ret.den)

NoteBlankWhenNoExit(entry_price, exit_price) ==
  IF entry_price = None THEN "no entry" ELSE ""
\* the note of a row whose series was resolved
Note(entry_price, exit_price) ==
  IF entry_price = None THEN "no entry"
  ELSE IF exit_price = None THEN "no exit (insufficient data)"
  ELSE ""

Row(symbol, sig_dt, ed, ep, xd, xp, ret, profit, inv, note) ==
  [symbol |-> symbol, signal_date |-> sig_dt, entry_date |-> ed,
   entry_price |-> ep, exit_date |-> xd, exit_price |-> xp,
   return_pct |-> ret, profit |-> profit, investment |-> inv, note |-> note]

\* backtest.py, the body of the loop after get_prices
TradeResultCli(symbol, sig_dt, h, inv, d) ==
  IF h = None
  THEN Row(symbol, sig_dt, None, None, None, None, None, None, inv, "no price data")
  ELSE LET t == find_entry_exit(h[1], sig_dt, d)
           resolved == t[2] # None /\ t[4] # None
           ret == IF resolved THEN Some(Return(t[2][1], t[4][1])) ELSE None
           profit == IF resolved THEN Some(Profit(ret[1], inv)) ELSE None
       IN Row(symbol, sig_dt, t[1], t[2], t[3], t[4], ret, profit, inv,
              Note(t[2], t[4]))

\* streamlit_app.py, the body of the loop after get_prices_for_symbol
TradeResultDashboard(symbol, sig_dt, h, inv, d) ==
  IF h = None
  THEN Row(symbol, sig_dt, None, None, None, None, None, None, inv, "no price data")
  ELSE LET t == find_entry_exit(h[1], sig_dt, d)
       IN IF t[2] = None
          THEN Row(symbol, sig_dt, None, None, None, None, None, None, inv,
                   Note(t[2], t[4]))
          ELSE IF t[4] = None
          THEN Row(symbol, sig_dt, t[1], t[2], None, None, None, None, inv,
                   Note(t[2], t[4]))
          ELSE LET ret == Return(t[2][1], t[4][1])
               IN Row(symbol, sig_dt, t[1], t[2], t[3], t[4], Some(ret),
                      Some(Profit(ret, inv)), inv, Note(t[2], t[4]))

\* results.append(...)
EmitSkippingNoData(res, tr) == IF tr.note = "no price data" THEN res ELSE Append(res, tr)
Emit(res, tr) == Append(res, tr)

\* start = sig_dt - timedelta(days=1); end = sig_dt + timedelta(days=days + 3)
WindowStart(sig_dt) == sig_dt - 1
WindowEnd(sig_dt, d) == sig_dt + (d + 3)

(***************************************************************************)
(* The run: run_backtest (cli) and run_backtest_df (dashboard).  Beside    *)
(* it runs the reference the cache is compared with: the same run with     *)
(* every candidate fetch going to the price source directly.  Both see the *)
(* same answer of the source at each step.                                 *)
(***************************************************************************)
Init ==
  /\ mode \in Modes
  /\ header \in Headers
  /\ batch \in Batches
  /\ investment \in Investments
  /\ days \in HoldingPeriods
  /\ pc = "start"
  /\ sigs = <<>>
  /\ results = <<>>
  /\ cache = <<>>
  /\ cand = 1
  /\ hist = None
  /\ calls = <<>>
  /\ fetches = 0
  /\ output = None
  /\ dcand = 0
  /\ dhist = None
  /\ dresults = <<>>
  /\ i = 0

\* detect_columns finds no symbol or no date column: the run raises
ColumnsMissing ==
  /\ pc = "start"
  /\ ~ColumnsFound(header)
  /\ pc' = "failed"
  /\ UNCHANGED <<mode, header, batch, investment, days, sigs, results, cache,
                 cand, hist, calls, fetches, output, dcand, dhist, dresults, i>>

ColumnsDetected ==
  /\ pc = "start"
  /\ ColumnsFound(header)
  /\ pc' = "parse"
  /\ UNCHANGED <<mode, header, batch, investment, days, sigs, results, cache,
                 cand, hist, calls, fetches, output, dcand, dhist, dresults, i>>

\* pd.to_datetime raises on a cell that is no date
DatesUnparseable ==
  /\ pc = "parse"
  /\ ~AllParse(header, batch)
  /\ pc' = "failed"
  /\ UNCHANGED <<mode, header, batch, investment, days, sigs, results, cache,
                 cand, hist, calls, fetches, output, dcand, dhist, dresults, i>>

DatesParsed ==
  /\ pc = "parse"
  /\ AllParse(header, batch)
  /\ sigs' = [k \in 1..Len(batch) |->
               [symbol |-> Cell(header, batch[k], detect_columns(header)[1][1]),
                date |-> to_datetime(Cell(header, batch[k], detect_columns(header)[2][1]))]]
  /\ pc' = "loop"
  /\ UNCHANGED <<mode, header, batch, investment, days, results, cache,
                 cand, hist, calls, fetches, output, dcand, dhist, dresults, i>>

\* the row the loop is at, and what the loop body derives from it
CurRow == sigs[i]
CurSymbol == Strip(CurRow.symbol)
CurStart == WindowStart(CurRow.date)
CurEnd == WindowEnd(CurRow.date, days)

\* top of the loop body, up to the call of the provider
BeginRow ==
  /\ pc = "loop"
  /\ i < Len(sigs)
  /\ i' = i + 1
  /\ cache' = IF mode = "cli"
              THEN [x \in DOMAIN cache \cup {Strip(sigs[i + 1].symbol)} |-> None]
              ELSE cache
  /\ cand' = 1
  /\ calls' = <<>>
  /\ dcand' = 1
  /\ pc' = "fetch"
  /\ UNCHANGED <<mode, header, batch, investment, days, sigs, results,
                 hist, fetches, output, dhist, dresults>>

\* the provider returns v for candidate cand: accept it, or move on
Advance(v) ==
  IF v # None THEN /\ hist' = v
                   /\ pc' = "resolve"
                   /\ cand' = cand
  ELSE IF cand >= Len(Candidates(CurSymbol))
       THEN /\ hist' = None
            /\ pc' = "resolve"
            /\ cand' = cand
       ELSE /\ hist' = hist
            /\ pc' = "fetch"
            /\ cand' = cand + 1

\* the reference run gets v for candidate dcand
DirectAdvance(v) ==
  IF v # None THEN dhist' = v /\ dcand' = 0
  ELSE IF dcand >= Len(Candidates(CurSymbol))
       THEN dhist' = None /\ dcand' = 0
       ELSE dhist' = dhist /\ dcand' = dcand + 1

\* backtest.py get_prices, one pass of `for t in candidates`
FetchCli ==
  /\ mode = "cli"
  /\ pc = "fetch"
  /\ \E a \in Answers(CurStart, CurEnd) :
       LET t == Candidates(CurSymbol)[cand]
           v == get_prices_try(t, CurStart, CurEnd, a)
       IN /\ calls' = Append(calls, [ticker |-> t, fetched |-> TRUE, value |-> v])
          /\ fetches' = fetches + 1
          /\ Advance(v)
          /\ DirectAdvance(v)
  /\ UNCHANGED <<mode, header, batch, investment, days, sigs, results, cache,
                 output, dresults, i>>

\* streamlit_app.py get_prices_for_symbol, one pass of `for t in candidates`
FetchDashboard ==
  /\ mode = "dashboard"
  /\ pc = "fetch"
  /\ \E a \in Answers(CurStart, CurEnd) :
       LET t == Candidates(CurSymbol)[cand]
           r == get_prices_cached(cache, t, CurStart, CurEnd, a)
           direct == get_prices_body(t, CurStart, CurEnd, a)
       IN /\ calls' = Append(calls, [ticker |-> t, fetched |-> r.fetched, value |-> r.value])
          /\ fetches' = fetches + (IF r.fetched THEN 1 ELSE 0)
          /\ cache' = r.cache
          /\ Advance(r.value)
          /\ IF dcand = cand THEN DirectAdvance(direct)
             ELSE UNCHANGED <<dcand, dhist>>
  /\ UNCHANGED <<mode, header, batch, investment, days, sigs, results,
                 output, dresults, i>>

\* the reference run goes on alone after the cached run has returned
DirectFetch ==
  /\ pc = "resolve"
  /\ dcand # 0
  /\ \E a \in Answers(CurStart, CurEnd) :
       DirectAdvance(get_prices_body(Candidates(CurSymbol)[dcand],
                                     CurStart, CurEnd, a))
  /\ UNCHANGED <<mode, header, batch, investment, days, pc, sigs, results, cache,
                 cand, hist, calls, fetches, output, dresults, i>>

TradeResult(m, symbol, sig_dt, h, inv, d) ==
  IF m = "cli" THEN TradeResultCli(symbol, sig_dt, h, inv, d)
  ELSE TradeResultDashboard(symbol, sig_dt, h, inv, d)

\* the rest of the loop body: resolve the trade and append the row
EmitRow ==
  /\ pc = "resolve"
  /\ dcand = 0
  /\ results' = Emit(results,
       TradeResult(mode, CurSymbol, CurRow.date, hist, investment, days))
  /\ dresults' = Append(dresults,
       TradeResult(mode, CurSymbol, CurRow.date, dhist, investment, days))
  /\ pc' = "loop"
  /\ UNCHANGED <<mode, header, batch, investment, days, sigs, cache,
                 cand, hist, calls, fetches, output, dcand, dhist, i>>

\* after the loop: out_df.to_csv(output_path) / return out_df
Finish ==
  /\ pc = "loop"
  /\ i >= Len(sigs)
  /\ output' = Some(results)
  /\ pc' = "done"
  /\ UNCHANGED <<mode, header, batch, investment, days, sigs, results, cache,
                 cand, hist, calls, fetches, dcand, dhist, dresults, i>>

Next ==
  \/ ColumnsMissing
  \/ ColumnsDetected
  \/ DatesUnparseable
  \/ DatesParsed
  \/ BeginRow
  \/ FetchCli
  \/ FetchDashboard
  \/ DirectFetch
  \/ EmitRow
  \/ Finish

Spec == Init /\ [][Next]_vars

(***************************************************************************)
(* Vocabulary of the properties.                                           *)
(***************************************************************************)
HasSymbolColumn(h) ==
  \E j \in 1..Len(h) : Lower(h[j]) \in {"symbol", "stock", "ticker"}
HasDateColumn(h) ==
  \E j \in 1..Len(h) : Lower(h[j]) \in {"date", "signal_date"}
HasRequiredColumns == HasSymbolColumn(header) /\ HasDateColumn(header)
DatesAreDates == \A k \in 1..Len(batch) : Parses(batch[k][2])

\* the loop has just finished a row: hist and calls are that row's
RowDone == pc \in {"loop", "done"} /\ i >= 1 /\ Len(results) = i
LastRow == results[Len(results)]
LastSignal == sigs[i].date
LastSymbol == Strip(sigs[i].symbol)
LastSeries == hist[1]
Dates(h) == { h[j].date : j \in 1..Len(h) }
\* the calls of a row that went to the price source
Fetched(cs) == Cardinality({ j \in 1..Len(cs) : cs[j].fetched })
Ascending(h) == \A j \in 1..(Len(h) - 1) : h[j].date < h[j + 1].date
\* the bars of h on or after day d, and the earliest of them
BarsFrom(h, d) == { j \in 1..Len(h) : h[j].date >= d }
EntryBar(h, d) == CHOOSE j \in BarsFrom(h, d) : \A m \in BarsFrom(h, d) : j <= m
AllNull(r) ==
  /\ r.entry_date = None /\ r.entry_price = None
  /\ r.exit_date = None /\ r.exit_price = None
  /\ r.return_pct = None /\ r.profit = None
ExampleSeries ==
  << [date |-> 2, close |-> 100], [date |-> 3, close |-> 102],
     [date |-> 4, close |-> 101], [date |-> 5, close |-> 105],
     [date |-> 8, close |-> 110] >>

(***************************************************************************)
(* C1 - as stated: for every batch that has the required columns, and      *)
(* whatever the price source does, the run never fails, processes every    *)
(* row and ends with exactly one output row per input row, the k-th        *)
(* carrying the (trimmed) symbol and the signal date of the k-th input.    *)
(* A batch with the columns but a date cell that is no date refutes it.    *)
(***************************************************************************)
OneRowPerInput ==
  /\ pc # "failed"
  /\ pc \in {"loop", "done"} => Len(results) = i
  /\ pc = "done" => Len(results) = Len(batch) /\ output = Some(results)
  /\ \A k \in 1..Len(results) :
       /\ k <= Len(batch)
       /\ results[k].symbol = Strip(batch[k][1])
       /\ results[k].signal_date = to_datetime(batch[k][2])
  /\ pc \in {"fetch", "resolve"} =>
       (cand \in 1..3 /\ i \in 1..Len(batch) /\ Len(results) = i - 1)

C2_NoteAgreesWithFields ==
  /\ \A k \in 1..Len(results) :
       LET r == results[k]
       IN /\ r.note \in {"no price data", "no entry",
                         "no exit (insufficient data)", ""}
          /\ r.investment = investment
          /\ r.investment > 0
          /\ r.note \in {"no price data", "no entry"} => AllNull(r)
          /\ r.note = "no exit (insufficient data)" <=>
               /\ r.entry_date # None /\ r.entry_price # None
               /\ r.exit_date = None /\ r.exit_price = None
               /\ r.return_pct = None /\ r.profit = None
          /\ r.note = "" <=>
               /\ r.entry_date # None /\ r.entry_price # None
               /\ r.exit_date # None /\ r.exit_price # None
               /\ r.return_pct # None /\ r.profit # None
  /\ RowDone =>
       /\ LastRow.note = "no price data" <=> hist = None
       /\ LastRow.note = "no entry" <=>
            (hist # None /\ BarsFrom(LastSeries, LastSignal) = {})

C2_Witness ==
  /\ pc = "done"
  /\ Len(results) = 2
  /\ results[1].note = "no entry"
  /\ results[2].note = "no exit (insufficient data)"
  /\ results[2].entry_price # None

(***************************************************************************)
(* C3 - whenever find_entry_exit returns an exit, the exit bar is the bar  *)
(* exactly `days` positions after the entry bar of the (strictly           *)
(* ascending) series, so exactly days-1 bars lie strictly between them,    *)
(* however many calendar days apart the two dates are.  On the example     *)
(* series, signal 2024-01-03 and days = 2 give entry (01-03, 102) and exit *)
(* (01-05, 105).                                                           *)
(***************************************************************************)
C3_ExitIsDaysBarsAfterEntry ==
  (RowDone /\ hist # None) =>
    /\ Ascending(LastSeries)
    /\ LastRow.exit_date # None =>
         /\ LastRow.entry_date # None
         /\ \E e \in 1..Len(LastSeries) : \E x \in 1..Len(LastSeries) :
              /\ LastSeries[e].date = LastRow.entry_date[1]
              /\ LastSeries[x].date = LastRow.exit_date[1]
              /\ LastSeries[x].close = LastRow.exit_price[1]
              /\ x = e + days
         /\ Cardinality({ d \in Dates(LastSeries) :
                            /\ d > LastRow.entry_date[1]
                            /\ d < LastRow.exit_date[1] }) = days - 1
    /\ (LastSeries = ExampleSeries /\ LastSignal = 3 /\ days = 2) =>
         /\ LastRow.entry_date = Some(3) /\ LastRow.entry_price = Some(102)
         /\ LastRow.exit_date = Some(5) /\ LastRow.exit_price = Some(105)

\* the exit lies across a weekend: 5 bars, 7 calendar days after the entry
C3_Witness ==
  /\ RowDone
  /\ days = 5
  /\ LastRow.entry_date = Some(3)
  /\ LastRow.exit_date = Some(10)

(***************************************************************************)
(* C4 - for a series that has an entry bar, the exit is null (entry still  *)
(* populated) exactly when fewer than `days` bars follow the entry bar,    *)
(* and non-null when at least `days` bars follow it; a signal on the last  *)
(* bar gives entry populated, exit null, note "no exit (insufficient       *)
(* data)".                                                                 *)
(***************************************************************************)
BarsAfterEntry == Len(LastSeries) - EntryBar(LastSeries, LastSignal)

C4_NoExitIffTooFewBars ==
  (RowDone /\ hist # None /\ BarsFrom(LastSeries, LastSignal) # {}) =>
    /\ LastRow.entry_date # None /\ LastRow.entry_price # None
    /\ BarsAfterEntry < days <=>
         (LastRow.exit_date = None /\ LastRow.exit_price = None)
    /\ BarsAfterEntry >= days <=>
         (LastRow.exit_date # None /\ LastRow.exit_price # None)
    /\ LastSeries[Len(LastSeries)].date = LastSignal =>
         /\ LastRow.entry_date = Some(LastSignal)
         /\ LastRow.exit_date = None /\ LastRow.exit_price = None
         /\ LastRow.note = "no exit (insufficient data)"

\* the signal is on the last bar of the series
C4_Witness ==
  /\ RowDone
  /\ hist # None
  /\ LastSeries[Len(LastSeries)].date = LastSignal
  /\ LastRow.entry_date = Some(LastSignal)
  /\ LastRow.exit_date = None
  /\ LastRow.note = "no exit (insufficient data)"

(***************************************************************************)
(* C5 - the entry is the earliest bar dated on or after the signal date    *)
(* (the bar of the signal date itself when there is one, the first bar of  *)
(* the series when the signal precedes every bar), entry_price is that     *)
(* bar's close; with no such bar all four outputs are null.                *)
(***************************************************************************)
C5_EntryIsFirstBarOnOrAfterSignal ==
  (RowDone /\ hist # None) =>
    /\ BarsFrom(LastSeries, LastSignal) # {} =>
         LET e == EntryBar(LastSeries, LastSignal)
         IN /\ LastRow.entry_date = Some(LastSeries[e].date)
            /\ LastRow.entry_price = Some(LastSeries[e].close)
            /\ LastSignal \in Dates(LastSeries) =>
                 LastRow.entry_date = Some(LastSignal)
            /\ (\A d \in Dates(LastSeries) : LastSignal < d) =>
                 LastRow.entry_date = Some(LastSeries[1].date)
    /\ BarsFrom(LastSeries, LastSignal) = {} =>
         /\ LastRow.entry_date = None /\ LastRow.entry_price = None
         /\ LastRow.exit_date = None /\ LastRow.exit_price = None

\* the signal (Sunday 01-07) precedes every bar: entry is the first bar
C5_Witness ==
  /\ RowDone
  /\ hist # None
  /\ \A d \in Dates(LastSeries) : LastSignal < d
  /\ LastRow.entry_date = Some(8)
  /\ LastRow.entry_price = Some(LastSeries[1].close)

(***************************************************************************)
(* C6 - the provider queries symbol.NS, symbol.BO, symbol in that order    *)
(* and returns the series of the first call that comes back non-empty      *)
(* without error; a call that raises or is empty only moves it to the next *)
(* candidate and never fails the run; nothing is queried after the         *)
(* accepted candidate (at most three calls and three downloads per row);   *)
(* it returns "unavailable" iff all three candidates failed.               *)
(***************************************************************************)
C6_CandidatesInOrderFirstWins ==
  /\ pc = "failed" => fetches = 0
  /\ (pc \in {"fetch", "resolve", "loop", "done"} /\ i >= 1) =>
       LET expected == << LastSymbol \o <<".NS">>, LastSymbol \o <<".BO">>,
                          LastSymbol >>
           n == Len(calls)
       IN /\ n <= 3
          /\ Fetched(calls) <= 3
          /\ \A j \in 1..n : calls[j].ticker = expected[j]
          /\ \A j \in 1..(n - 1) : calls[j].value = None
          /\ pc = "fetch" =>
               /\ n < 3
               /\ cand = n + 1
               /\ \A j \in 1..n : calls[j].value = None
          /\ pc # "fetch" =>
               /\ n >= 1
               /\ hist = calls[n].value
               /\ hist = None <=> (n = 3 /\ \A j \in 1..3 : calls[j].value = None)

\* two candidates failed and the raw symbol's series was accepted
C6_Witness ==
  /\ RowDone
  /\ Len(calls) = 3
  /\ calls[1].value = None /\ calls[2].value = None
  /\ calls[3].ticker = <<"A">>
  /\ hist # None
  /\ hist = calls[3].value
  /\ LastRow.note = ""

(***************************************************************************)
(* C7 - as stated: the window signal-1 .. signal+days+3 is padded enough:  *)
(* whenever the resolved series holds a bar for every weekday of the       *)
(* requested window, the row resolves fully (exit populated, note empty).  *)
(***************************************************************************)
C7_WindowEnsuresCoverage ==
  ( /\ RowDone
    /\ hist # None
    /\ Dates(LastSeries) =
         { d \in (LastSignal - 1)..(LastSignal + days + 3) : IsTradingDay(d) } )
  => (LastRow.exit_date # None /\ LastRow.note = "")

(***************************************************************************)
(* C8 - for every fully resolved row return_pct is exactly                 *)
(* (exit_price - entry_price) / entry_price, unrounded, and profit is      *)
(* return_pct x investment (entry 102, exit 105, investment 1000: 0.0294   *)
(* and 29.4); for every other row both are null.                           *)
(***************************************************************************)
C8_ReturnAndProfit ==
  \A k \in 1..Len(results) :
    LET r == results[k]
    IN /\ r.note = "" =>
            LET ret == r.return_pct[1]
                profit == r.profit[1]
                entry == r.entry_price[1]
                exit == r.exit_price[1]
            IN /\ ret.den # 0 /\ profit.den # 0
               /\ ret.num * entry = (exit - entry) * ret.den
               /\ profit.num * ret.den = ret.num * r.investment * profit.den
               /\ (entry = 102 /\ exit = 105 /\ r.investment = 1000) =>
                    /\ (ret.num * 10000) \div ret.den = 294
                    /\ (profit.num * 10) \div profit.den = 294
       /\ r.note # "" => (r.return_pct = None /\ r.profit = None)

C8_Witness ==
  \E k \in 1..Len(results) :
    /\ results[k].note = ""
    /\ results[k].entry_price = Some(102)
    /\ results[k].exit_price = Some(105)
    /\ results[k].investment = 1000
    /\ results[k].return_pct = Some(Frac(3, 102))

(***************************************************************************)
(* C9 - the cache does not affect the results, also after a fetch for a    *)
(* key that raised or came back empty: in every row in which the cache     *)
(* served no stored series (each call either went to the price source or   *)
(* was answered with a stored failure), the TradeResult equals that of the *)
(* run whose every candidate fetch goes to the price source directly.      *)
(***************************************************************************)
C9_CacheDoesNotAffectResults ==
  ( /\ RowDone
    /\ Len(dresults) = Len(results)
    /\ \A j \in 1..Len(calls) : calls[j].fetched \/ calls[j].value = None )
  => LastRow = dresults[Len(dresults)]

(***************************************************************************)
(* C10 - as stated: a batch lacking the symbol or the date column fails    *)
(* the run before any row is processed (no fetch, no TradeResult, no       *)
(* output), and that is the only condition under which a run fails.        *)
(***************************************************************************)
NothingProcessed ==
  /\ i = 0 /\ results = <<>> /\ fetches = 0 /\ calls = <<>>
  /\ cache = <<>> /\ output = None

FailsFastOnMissingColumns ==
  /\ ~HasRequiredColumns => (pc \in {"start", "failed"} /\ NothingProcessed)
  /\ pc = "failed" => NothingProcessed

====
